---------------------------- MODULE Spec2Model ----------------------------
(***************************************************************************)
(* Model of the Vespa filter compiler                                      *)
(*   src/integrations/vespa/src/haystack_integrations/document_stores/     *)
(*       vespa/filters.py                                                  *)
(*                                                                         *)
(* normalize_filters is a pure function from a filter tree to a YQL        *)
(* string or an exception.  Python strings are sequences of one-character  *)
(* strings; Python values are tagged records:                              *)
(*   [t |-> "str",   s |-> <<chars>>]      [t |-> "null"]                  *)
(*   [t |-> "bool",  b |-> BOOLEAN]        [t |-> "int", i |-> Int]        *)
(*   [t |-> "float", k |-> "fin"|"inf"|"ninf"|"nan", h |-> halves]         *)
(*   [t |-> "list",  l |-> <<values>>]                                     *)
(*   [t |-> "dict",  d |-> [key |-> value]]                                *)
(* A call returns [ok |-> TRUE, out |-> <<chars>>] or, when an exception   *)
(* leaves it, [ok |-> FALSE, err |-> <exception class>].                   *)
(***************************************************************************)
EXTENDS Integers, Sequences, FiniteSets, TLC

VARIABLES filters, pc, result

vars == <<filters, pc, result>>

-----------------------------------------------------------------------------
(* Bounds of the input universe *)

MaxStrLen == 3
MaxListLen == 2
MaxInt == 11
MaxHalves == 3
MaxNodes == 4

-----------------------------------------------------------------------------
(* Value constructors *)

Str(s) == [t |-> "str", s |-> s]
IntV(i) == [t |-> "int", i |-> i]
BoolV(b) == [t |-> "bool", b |-> b]
FloatV(h) == [t |-> "float", k |-> "fin", h |-> h]
Inf == [t |-> "float", k |-> "inf", h |-> 0]
NegInf == [t |-> "float", k |-> "ninf", h |-> 0]
NaN == [t |-> "float", k |-> "nan", h |-> 0]
None == [t |-> "null"]
List(l) == [t |-> "list", l |-> l]
Dict(d) == [t |-> "dict", d |-> d]

Ok(s) == [ok |-> TRUE, out |-> s]
Raise(e) == [ok |-> FALSE, err |-> e]

-----------------------------------------------------------------------------
(* String literals of the source, as character sequences *)

S_field == <<"f","i","e","l","d">>
S_operator == <<"o","p","e","r","a","t","o","r">>
S_conditions == <<"c","o","n","d","i","t","i","o","n","s">>
S_value == <<"v","a","l","u","e">>
S_meta_dot == <<"m","e","t","a",".">>
S_AND == <<"A","N","D">>
S_OR == <<"O","R">>
S_NOT == <<"N","O","T">>
S_and == <<" ","a","n","d"," ">>
S_or == <<" ","o","r"," ">>
S_lparen == <<"(">>
S_rparen == <<")">>
S_not_lparen == <<"!","(">>
S_contains == <<" ","c","o","n","t","a","i","n","s"," ">>
S_eq == <<" ","="," ">>
S_gt == <<" ",">"," ">>
S_ge == <<" ",">","="," ">>
S_lt == <<" ","<"," ">>
S_le == <<" ","<","="," ">>
S_in_lparen == <<" ","i","n"," ","(">>
S_comma == <<","," ">>
S_true == <<"t","r","u","e">>
S_false == <<"f","a","l","s","e">>
S_True == <<"T","r","u","e">>
S_False == <<"F","a","l","s","e">>
S_inf == <<"i","n","f">>
S_nan == <<"n","a","n">>
BACKSLASH == <<"\\">>
DQUOTE == <<"\"">>
SQUOTE == <<"'">>

OP_EQ == <<"=","=">>
OP_NE == <<"!","=">>
OP_GT == <<">">>
OP_GE == <<">","=">>
OP_LT == <<"<">>
OP_LE == <<"<","=">>
OP_IN == <<"i","n">>
OP_NOT_IN == <<"n","o","t"," ","i","n">>

MetaPrefixLen == 5

-----------------------------------------------------------------------------
(* Python built-ins the source uses *)

\* str.startswith(prefix)
StartsWith(s, prefix) ==
    /\ Len(s) >= Len(prefix)
    /\ SubSeq(s, 1, Len(prefix)) = prefix

\* `sub in s` for two strings: substring test
IsSubstring(sub, s) ==
    \E i \in 1..(Len(s) - Len(sub) + 1) : SubSeq(s, i, i + Len(sub) - 1) = sub

\* str.replace(old, new) for a one-character old: every occurrence, left to right
RECURSIVE Replace(_, _, _)
Replace(s, old, new) ==
    IF s = <<>> THEN <<>>
    ELSE (IF <<Head(s)>> = old THEN new ELSE <<Head(s)>>) \o Replace(Tail(s), old, new)

\* sep.join(parts)
RECURSIVE Join(_, _)
Join(sep, parts) ==
    IF parts = <<>> THEN <<>>
    ELSE IF Len(parts) = 1 THEN parts[1]
    ELSE parts[1] \o sep \o Join(sep, Tail(parts))

Digit(d) == <<"0","1","2","3","4","5","6","7","8","9">>[d + 1]

RECURSIVE NatStr(_)
NatStr(n) == IF n < 10 THEN <<Digit(n)>> ELSE NatStr(n \div 10) \o <<Digit(n % 10)>>

\* str(i) for an int
IntStr(i) == IF i < 0 THEN <<"-">> \o NatStr(-i) ELSE NatStr(i)

\* str(x) for a float; a finite float h/2 prints as "<int>.0" or "<int>.5"
FloatStr(v) ==
    CASE v.k = "inf" -> S_inf
      [] v.k = "ninf" -> <<"-">> \o S_inf
      [] v.k = "nan" -> S_nan
      [] OTHER ->
           LET a == IF v.h < 0 THEN -v.h ELSE v.h
           IN (IF v.h < 0 THEN <<"-">> ELSE <<>>)
                \o NatStr(a \div 2) \o <<".">> \o (IF a % 2 = 1 THEN <<"5">> ELSE <<"0">>)

\* str(value) / f"{value}" for a number; str(True) is "True", not "true"
PyStr(v) ==
    CASE v.t = "bool" -> (IF v.b THEN S_True ELSE S_False)
      [] v.t = "int" -> IntStr(v.i)
      [] v.t = "float" -> FloatStr(v)

\* isinstance(value, (int, float)): bool is a subclass of int
IsIntOrFloat(v) == v.t \in {"int", "float", "bool"}

\* math.isinf(value) or math.isnan(value)
IsInfOrNan(v) == v.t = "float" /\ v.k \in {"inf", "ninf", "nan"}

\* the dict key spelled by a string, "" when it is none of the source's keys
KeyOf(s) ==
    CASE s = S_field -> "field"
      [] s = S_operator -> "operator"
      [] s = S_conditions -> "conditions"
      [] s = S_value -> "value"
      [] OTHER -> ""

\* `key in x` raises TypeError when x is not a container
CanContain(x) == x.t \in {"dict", "str", "list"}

\* `key in x` for a dict (its keys), a string (substring) or a list (an equal element)
PyIn(key, x) ==
    CASE x.t = "dict" -> KeyOf(key) \in DOMAIN x.d
      [] x.t = "str" -> IsSubstring(key, x.s)
      [] x.t = "list" -> \E i \in 1..Len(x.l) : x.l[i] = Str(key)
      [] OTHER -> FALSE

\* `not x` is false: bool(x)
Truthy(x) ==
    CASE x.t = "null" -> FALSE
      [] x.t = "bool" -> x.b
      [] x.t = "int" -> x.i # 0
      [] x.t = "float" -> ~(x.k = "fin" /\ x.h = 0)
      [] x.t = "str" -> x.s # <<>>
      [] x.t = "list" -> x.l # <<>>
      [] x.t = "dict" -> DOMAIN x.d # {}

\* `for c in x` raises TypeError on a number; the input universe holds no
\* dict-valued `conditions` (a dict iterates its keys in insertion order, which
\* the records here do not keep)
Iterable(x) == x.t \in {"list", "str"}

\* the items `for c in x` yields
Items(x) ==
    CASE x.t = "list" -> x.l
      [] x.t = "str" -> [i \in 1..Len(x.s) |-> Str(<<x.s[i]>>)]

\* hash(x) raises TypeError on a list or a dict
Hashable(x) == x.t \notin {"list", "dict"}

\* the exception that leaves a sequence of calls made in order: the first one
FirstError(rs) ==
    rs[CHOOSE i \in 1..Len(rs) : ~rs[i].ok /\ \A j \in 1..(i - 1) : rs[j].ok]

AllOk(rs) == \A i \in 1..Len(rs) : rs[i].ok

Outs(rs) == [i \in 1..Len(rs) |-> rs[i].out]

\* f"{prefix}{call()}{suffix}": the call's exception leaves the f-string
Wrap(prefix, r, suffix) == IF r.ok THEN Ok(prefix \o r.out \o suffix) ELSE r

-----------------------------------------------------------------------------
(* filters.py *)

\* _escape_yql_string replacing the quotes before the backslashes
_escape_yql_string_QuotesFirst(value) ==
    Replace(Replace(value, DQUOTE, <<"\\", "\"">>), BACKSLASH, <<"\\", "\\">>)

_escape_yql_string(value) ==
    Replace(Replace(value, BACKSLASH, <<"\\", "\\">>), DQUOTE, <<"\\", "\"">>)

\* _format_value testing for a number before testing for a bool
_format_value_IntBeforeBool(value) ==
    IF value.t = "str" THEN Ok(DQUOTE \o _escape_yql_string(value.s) \o DQUOTE)
    ELSE IF IsIntOrFloat(value) THEN
        IF value.t = "float" /\ IsInfOrNan(value) THEN Raise("FilterError")
        ELSE Ok(PyStr(value))
    ELSE IF value.t = "bool" THEN Ok(IF value.b THEN S_true ELSE S_false)
    ELSE Raise("FilterError")

_format_value(value) ==
    IF value.t = "str" THEN Ok(DQUOTE \o _escape_yql_string(value.s) \o DQUOTE)
    ELSE IF value.t = "bool" THEN Ok(IF value.b THEN S_true ELSE S_false)
    ELSE IF IsIntOrFloat(value) THEN
        IF value.t = "float" /\ IsInfOrNan(value) THEN Raise("FilterError")
        ELSE Ok(PyStr(value))
    ELSE Raise("FilterError")

\* _validate_range_value refusing strings as well
_validate_range_value_RejectsStr(value) ==
    IF value = None THEN Raise("FilterError")
    ELSE IF value.t \in {"list", "str"} THEN Raise("FilterError")
    ELSE Ok(<<>>)

_validate_range_value(value) ==
    IF value = None THEN Raise("FilterError")
    ELSE IF value.t = "list" THEN Raise("FilterError")
    ELSE Ok(<<>>)

\* _equal without its branch for strings
_equal_NoContains(field, value) ==
    IF value = None THEN Raise("FilterError")
    ELSE Wrap(field \o S_eq, _format_value(value), <<>>)

_equal(field, value) ==
    IF value = None THEN Raise("FilterError")
    ELSE IF value.t = "str"
         THEN Ok(field \o S_contains \o DQUOTE \o _escape_yql_string(value.s) \o DQUOTE)
    ELSE Wrap(field \o S_eq, _format_value(value), <<>>)

_not_equal(field, value) ==
    IF value = None THEN Raise("FilterError")
    ELSE IF value.t = "str"
         THEN Ok(S_not_lparen \o field \o S_contains \o DQUOTE
                   \o _escape_yql_string(value.s) \o DQUOTE \o S_rparen)
    ELSE Wrap(S_not_lparen \o field \o S_eq, _format_value(value), S_rparen)

\* the shared shape of the four range formatters
RangeFormat(field, op, value) ==
    IF ~_validate_range_value(value).ok THEN _validate_range_value(value)
    ELSE Wrap(field \o op, _format_value(value), <<>>)

_greater_than(field, value) == RangeFormat(field, S_gt, value)

_greater_than_equal(field, value) == RangeFormat(field, S_ge, value)

_less_than(field, value) == RangeFormat(field, S_lt, value)

_less_than_equal(field, value) == RangeFormat(field, S_le, value)

\* one pass of the loop of _in: what is appended for the element v
InElement(v) ==
    IF v.t = "str"
    THEN Ok(SQUOTE \o Replace(Replace(v.s, BACKSLASH, <<"\\", "\\">>), SQUOTE, <<"\\", "'">>)
              \o SQUOTE)
    ELSE IF v.t = "bool" THEN Ok(IF v.b THEN S_true ELSE S_false)
    ELSE IF IsIntOrFloat(v) THEN Ok(PyStr(v))
    ELSE Raise("FilterError")

\* _in without its test for an empty list
_in_NoEmptyCheck(field, value) ==
    IF value.t # "list" THEN Raise("FilterError")
    ELSE LET formatted_values == [i \in 1..Len(value.l) |-> InElement(value.l[i])]
         IN IF ~AllOk(formatted_values) THEN FirstError(formatted_values)
            ELSE Ok(field \o S_in_lparen \o Join(S_comma, Outs(formatted_values)) \o S_rparen)

_in(field, value) ==
    IF value.t # "list" THEN Raise("FilterError")
    ELSE IF ~Truthy(value) THEN Raise("FilterError")
    ELSE LET formatted_values == [i \in 1..Len(value.l) |-> InElement(value.l[i])]
         IN IF ~AllOk(formatted_values) THEN FirstError(formatted_values)
            ELSE Ok(field \o S_in_lparen \o Join(S_comma, Outs(formatted_values)) \o S_rparen)

\* _not_in negating without the parentheses
_not_in_NoParens(field, value) ==
    IF value.t # "list" THEN Raise("FilterError")
    ELSE Wrap(<<"!">>, _in(field, value), <<>>)

_not_in(field, value) ==
    IF value.t # "list" THEN Raise("FilterError")
    ELSE Wrap(S_not_lparen, _in(field, value), S_rparen)

COMPARISON_OPERATORS == {OP_EQ, OP_NE, OP_GT, OP_GE, OP_LT, OP_LE, OP_IN, OP_NOT_IN}

\* COMPARISON_OPERATORS[operator](field, value)
Dispatch(operator, field, value) ==
    CASE operator = OP_EQ -> _equal(field, value)
      [] operator = OP_NE -> _not_equal(field, value)
      [] operator = OP_GT -> _greater_than(field, value)
      [] operator = OP_GE -> _greater_than_equal(field, value)
      [] operator = OP_LT -> _less_than(field, value)
      [] operator = OP_LE -> _less_than_equal(field, value)
      [] operator = OP_IN -> _in(field, value)
      [] operator = OP_NOT_IN -> _not_in(field, value)

\* StripMeta removing every leading "meta.", not only the first
RECURSIVE StripMeta_Repeatedly(_)
StripMeta_Repeatedly(field) ==
    IF StartsWith(field, S_meta_dot)
    THEN StripMeta_Repeatedly(SubSeq(field, MetaPrefixLen + 1, Len(field)))
    ELSE field

\* the prefix removal of _parse_comparison_condition
StripMeta(field) ==
    IF StartsWith(field, S_meta_dot) THEN SubSeq(field, MetaPrefixLen + 1, Len(field))
    ELSE field

\* LogicalJoin with NOT joining its children by " or "
LogicalJoin_NotJoinsByOr(operator, conditions) ==
    IF operator = Str(S_AND) THEN Ok(S_lparen \o Join(S_and, conditions) \o S_rparen)
    ELSE IF operator = Str(S_OR) THEN Ok(S_lparen \o Join(S_or, conditions) \o S_rparen)
    ELSE IF operator = Str(S_NOT) THEN Ok(S_not_lparen \o Join(S_or, conditions) \o S_rparen)
    ELSE Raise("FilterError")

\* the join of _parse_logical_condition, once every child has compiled
LogicalJoin(operator, conditions) ==
    IF operator = Str(S_AND) THEN Ok(S_lparen \o Join(S_and, conditions) \o S_rparen)
    ELSE IF operator = Str(S_OR) THEN Ok(S_lparen \o Join(S_or, conditions) \o S_rparen)
    ELSE IF operator = Str(S_NOT) THEN Ok(S_not_lparen \o Join(S_and, conditions) \o S_rparen)
    ELSE Raise("FilterError")

RECURSIVE _parse_logical_condition(_), _parse_comparison_condition(_)

\* the list comprehension of _parse_logical_condition
ParseChildren(conditions) ==
    [i \in 1..Len(Items(conditions)) |-> _parse_comparison_condition(Items(conditions)[i])]

\* _parse_logical_condition without its test for an empty conditions list
_parse_logical_condition_NoEmptyCheck(condition) ==
    IF ~PyIn(S_operator, condition) THEN Raise("FilterError")
    ELSE IF ~PyIn(S_conditions, condition) THEN Raise("FilterError")
    ELSE IF condition.t # "dict" THEN Raise("TypeError")
    ELSE LET operator == condition.d.operator
         IN IF ~Iterable(condition.d.conditions) THEN Raise("TypeError")
            ELSE LET conditions == ParseChildren(condition.d.conditions)
                 IN IF ~AllOk(conditions) THEN FirstError(conditions)
                    ELSE LogicalJoin(operator, Outs(conditions))

_parse_logical_condition(condition) ==
    IF ~PyIn(S_operator, condition) THEN Raise("FilterError")
    ELSE IF ~PyIn(S_conditions, condition) THEN Raise("FilterError")
    ELSE IF condition.t # "dict" THEN Raise("TypeError")
    ELSE LET operator == condition.d.operator
         IN IF ~Truthy(condition.d.conditions) THEN Raise("FilterError")
            ELSE IF ~Iterable(condition.d.conditions) THEN Raise("TypeError")
            ELSE LET conditions == ParseChildren(condition.d.conditions)
                 IN IF ~AllOk(conditions) THEN FirstError(conditions)
                    ELSE LogicalJoin(operator, Outs(conditions))

_parse_comparison_condition(condition) ==
    IF ~CanContain(condition) THEN Raise("TypeError")
    ELSE IF ~PyIn(S_field, condition) THEN _parse_logical_condition(condition)
    ELSE IF condition.t # "dict" THEN Raise("TypeError")
    ELSE IF condition.d.field.t # "str" THEN Raise("AttributeError")
    ELSE LET field == StripMeta(condition.d.field.s)
         IN IF "operator" \notin DOMAIN condition.d THEN Raise("FilterError")
            ELSE IF "value" \notin DOMAIN condition.d THEN Raise("FilterError")
            ELSE LET operator == condition.d.operator
                     value == condition.d.value
                 IN IF ~Hashable(operator) THEN Raise("TypeError")
                    ELSE IF operator.t # "str" \/ operator.s \notin COMPARISON_OPERATORS
                         THEN Raise("FilterError")
                    ELSE Dispatch(operator.s, field, value)

normalize_filters(f) ==
    IF f.t # "dict" THEN Raise("FilterError")
    ELSE IF "field" \in DOMAIN f.d THEN _parse_comparison_condition(f)
    ELSE _parse_logical_condition(f)

-----------------------------------------------------------------------------
(* The input universe: the values of the parameter `filters` *)

StrAlphabet == {"a", "\\", "\"", "'"}

\* every sequence over S of length at most n
SeqsUpTo(S, n) == UNION {[1..k -> S] : k \in 0..n}

F_x == <<"x">>
F_meta_x == S_meta_dot \o <<"x">>
F_meta_meta_x == S_meta_dot \o S_meta_dot \o <<"x">>
F_a_meta_x == <<"a", ".">> \o S_meta_dot \o <<"x">>
F_meta_only == S_meta_dot
F_meta_nodot == <<"m","e","t","a">>
F_metax == <<"m","e","t","a","x">>

FieldNames == {F_x, F_meta_x, F_meta_meta_x, F_a_meta_x, F_meta_only, F_meta_nodot, F_metax, <<>>}

NestedDict == Dict([nested |-> BoolV(TRUE)])

StrValues == {Str(s) : s \in SeqsUpTo(StrAlphabet, MaxStrLen)}
BoolValues == {BoolV(TRUE), BoolV(FALSE)}
IntValues == {IntV(i) : i \in (-MaxInt)..MaxInt}
FloatValues == {FloatV(h) : h \in (-MaxHalves)..MaxHalves} \cup {Inf, NegInf, NaN}

\* what a list given to in / not in may hold
ListElems ==
    {Str(s) : s \in SeqsUpTo(StrAlphabet, 1)} \cup BoolValues
      \cup {IntV(1), IntV(MaxInt), FloatV(MaxHalves), Inf, NaN, None, NestedDict}

\* every short list of those, and every string alone in a list
ListValues ==
    {List(l) : l \in SeqsUpTo(ListElems, MaxListLen)} \cup {List(<<v>>) : v \in StrValues}

Values == StrValues \cup BoolValues \cup IntValues \cup FloatValues \cup ListValues
            \cup {None, NestedDict}

SmallValues ==
    {Str(<<"a">>), Str(<<"\"", "\\">>), IntV(1), BoolV(TRUE), FloatV(MaxHalves), Inf, None,
     List(<<IntV(1)>>), List(<<Str(<<"a">>), BoolV(FALSE)>>), List(<<>>)}

OP_UNKNOWN == <<"~", "=">>

OperatorValues ==
    {Str(op) : op \in COMPARISON_OPERATORS} \cup {Str(OP_UNKNOWN), IntV(1), List(<<>>)}

Leaf(field, operator, value) == Dict([field |-> field, operator |-> operator, value |-> value])

Logical(operator, conditions) == Dict([operator |-> operator, conditions |-> conditions])

\* comparison leaves: one field with every operator and value, every field with
\* every operator and a few values, and leaves with a key missing or a field
\* that is no string
LeafInputs ==
    {Leaf(Str(F_meta_x), op, v) : op \in OperatorValues, v \in Values}
      \cup {Leaf(Str(f), op, v) : f \in FieldNames, op \in OperatorValues, v \in SmallValues}
      \cup {Dict([field |-> Str(f), operator |-> op]) : f \in FieldNames, op \in OperatorValues}
      \cup {Dict([field |-> Str(f), value |-> v]) : f \in FieldNames, v \in SmallValues}
      \cup {Dict([field |-> Str(f)]) : f \in FieldNames}
      \cup {Leaf(f, Str(OP_EQ), v) : f \in {IntV(1), None, List(<<>>)}, v \in SmallValues}

S_XOR == <<"X","O","R">>

LogicalOperators == {Str(S_AND), Str(S_OR), Str(S_NOT), Str(S_XOR)}

\* the children a logical node of the tree inputs may hold besides logical nodes
TreeLeaves ==
    {Leaf(Str(F_meta_x), Str(OP_EQ), Str(<<"a">>)),
     Leaf(Str(F_meta_meta_x), Str(OP_IN), List(<<IntV(1), BoolV(TRUE)>>)),
     Leaf(Str(F_x), Str(OP_IN), List(<<Inf>>)),
     Dict([field |-> Str(F_x), operator |-> Str(OP_GT)]),
     IntV(MaxInt)}

RECURSIVE TreesOfSize(_), ForestsOfSize(_)

\* the sequences of trees with n nodes in all
ForestsOfSize(n) ==
    IF n = 0 THEN {<<>>}
    ELSE UNION {{<<t>> \o f : t \in TreesOfSize(m), f \in ForestsOfSize(n - m)} : m \in 1..n}

\* the trees with n nodes
TreesOfSize(n) ==
    (IF n = 1 THEN TreeLeaves ELSE {})
      \cup {Logical(op, List(f)) : op \in LogicalOperators, f \in ForestsOfSize(n - 1)}

\* inputs of other shapes: no dict at all, a logical node with a key missing, an
\* operator or a `conditions` of another type, children that are no dicts
OddInputs ==
    {Str(<<"a">>), Str(S_field), IntV(1), None, BoolV(TRUE), List(<<>>), NestedDict}
      \cup {Dict([operator |-> op]) : op \in LogicalOperators}
      \cup {Dict([conditions |-> List(c)]) : c \in {<<>>, <<Leaf(Str(F_x), Str(OP_EQ), IntV(1))>>}}
      \cup {Logical(op, c) : op \in LogicalOperators,
                             c \in {None, IntV(0), IntV(1), BoolV(TRUE), FloatV(1), Str(<<>>),
                                    Str(<<"a", "a">>)}}
      \cup {Logical(op, List(<<Leaf(Str(F_x), Str(OP_EQ), IntV(1))>>)) :
                op \in {IntV(1), None, List(<<>>), Str(<<"a","n","d">>)}}
      \cup {Logical(op, List(<<c>>)) :
                op \in LogicalOperators,
                c \in {None, BoolV(FALSE), FloatV(1), Str(<<"a">>), Str(S_field),
                       Str(S_operator \o S_conditions), List(<<>>), List(<<Str(S_field)>>),
                       List(<<Str(S_operator), Str(S_conditions)>>), NestedDict,
                       Leaf(IntV(1), Str(OP_EQ), IntV(1)),
                       Leaf(Str(F_x), List(<<>>), IntV(1))}}

-----------------------------------------------------------------------------
(* The state machine: one call of normalize_filters *)

NoResult == [ok |-> FALSE, err |-> "pending"]

\* the caller passes a comparison leaf, a tree of at most MaxNodes nodes or an
\* input of another shape
Init ==
    /\ \/ filters \in LeafInputs
       \/ \E n \in 1..MaxNodes : filters \in TreesOfSize(n)
       \/ filters \in OddInputs
    /\ pc = "call"
    /\ result = NoResult

\* normalize_filters(filters) returns or raises
Normalize ==
    /\ pc = "call"
    /\ result' = normalize_filters(filters)
    /\ pc' = "done"
    /\ UNCHANGED filters

Next == Normalize

Spec == Init /\ [][Next]_vars

TypeOK ==
    /\ pc \in {"call", "done"}
    /\ pc = "call" => result = NoResult
    /\ pc = "done" => \/ result.ok /\ DOMAIN result = {"ok", "out"}
                      \/ ~result.ok /\ result.err \in {"FilterError", "TypeError", "AttributeError"}

-----------------------------------------------------------------------------
(* Shapes of the input, as the claims name them *)

Done == pc = "done"

IsDict(x) == x.t = "dict"

\* a comparison leaf: a dict with a `field` key
IsLeaf(x) == IsDict(x) /\ "field" \in DOMAIN x.d

\* a leaf with its three keys, a string field and a string operator
IsFullLeaf(x) ==
    /\ IsLeaf(x)
    /\ {"operator", "value"} \subseteq DOMAIN x.d
    /\ x.d.field.t = "str"
    /\ x.d.operator.t = "str"

LeafWithOp(x, ops) == IsFullLeaf(x) /\ x.d.operator.s \in ops

\* a logical node with both keys and a list of conditions
IsLogical(x) ==
    /\ IsDict(x)
    /\ "field" \notin DOMAIN x.d
    /\ {"operator", "conditions"} \subseteq DOMAIN x.d
    /\ x.d.conditions.t = "list"

RangeOps == {OP_GT, OP_GE, OP_LT, OP_LE}

\* the text the formatter of a scalar operator puts between field and value
OpText(op) ==
    CASE op = OP_GT -> S_gt
      [] op = OP_GE -> S_ge
      [] op = OP_LT -> S_lt
      [] op = OP_LE -> S_le
      [] OTHER -> S_eq

\* parts[1] sep parts[2] sep ... parts[n], built from the left
RECURSIVE JoinLeft(_, _, _)
JoinLeft(parts, sep, n) ==
    IF n = 0 THEN <<>>
    ELSE IF n = 1 THEN parts[1]
    ELSE JoinLeft(parts, sep, n - 1) \o sep \o parts[n]

\* the node and every node below it
RECURSIVE SubNodes(_)
SubNodes(x) ==
    {x} \cup (IF IsLogical(x)
              THEN UNION {SubNodes(x.d.conditions.l[i]) : i \in 1..Len(x.d.conditions.l)}
              ELSE {})

\* nesting depth of the deepest node: 1 for a node without children
RECURSIVE Depth(_)
Depth(x) ==
    IF IsLogical(x) /\ x.d.conditions.l # <<>>
    THEN 1 + (CHOOSE m \in {Depth(x.d.conditions.l[i]) : i \in 1..Len(x.d.conditions.l)} :
                \A k \in {Depth(x.d.conditions.l[i]) : i \in 1..Len(x.d.conditions.l)} : k <= m)
    ELSE 1

-----------------------------------------------------------------------------
(* C1 *)

\* the outputs of the children of the root, in the order of its conditions list
ChildOuts(x) ==
    [i \in 1..Len(x.d.conditions.l) |-> _parse_comparison_condition(x.d.conditions.l[i]).out]

ChildrenCompile(x) ==
    \A i \in 1..Len(x.d.conditions.l) : _parse_comparison_condition(x.d.conditions.l[i]).ok

\* C1: a logical node with a non-empty conditions list whose children all compile
\* returns "(" + the children's outputs joined by " and " + ")" for AND, the same
\* with " or " for OR, "!(" + the outputs joined by " and " + ")" for NOT, and an
\* error for any other operator; the outputs are those of all len(conditions)
\* children, in list order, and a single child keeps its pair of parentheses.
C1_LogicalJoin ==
    (Done /\ IsLogical(filters) /\ filters.d.conditions.l # <<>> /\ ChildrenCompile(filters))
      => LET outs == ChildOuts(filters)
             n == Len(filters.d.conditions.l)
             operator == filters.d.operator
         IN CASE operator = Str(S_AND) ->
                   result = Ok(<<"(">> \o JoinLeft(outs, S_and, n) \o <<")">>)
              [] operator = Str(S_OR) ->
                   result = Ok(<<"(">> \o JoinLeft(outs, S_or, n) \o <<")">>)
              [] operator = Str(S_NOT) ->
                   result = Ok(<<"!", "(">> \o JoinLeft(outs, S_and, n) \o <<")">>)
              [] OTHER -> ~result.ok

\* a NOT over two children, one of them a nested logical node, has compiled
C1_Witness ==
    /\ Done
    /\ IsLogical(filters)
    /\ filters.d.operator = Str(S_NOT)
    /\ Len(filters.d.conditions.l) = 2
    /\ \E i \in 1..2 : IsLogical(filters.d.conditions.l[i])
    /\ result.ok

-----------------------------------------------------------------------------
(* C2 *)

\* C2: every failure of normalize_filters is a FilterError, whatever the input;
\* a child of a logical node that is no dict fails with FilterError like a
\* top-level input that is no dict.
C2_OnlyFilterError == (Done /\ ~result.ok) => result.err = "FilterError"

-----------------------------------------------------------------------------
(* C3, C4 *)

ScalarTypes == {"str", "bool", "int", "float"}

\* a value the rules of the comparison operators reject
InvalidValue(op, v) ==
    \/ IsInfOrNan(v)
    \/ v.t = "dict"
    \/ op \in {OP_EQ, OP_NE} \cup RangeOps /\ v.t \in {"null", "list"}
    \/ op \in {OP_IN, OP_NOT_IN}
         /\ \/ v.t # "list"
            \/ v.l = <<>>
            \/ \E i \in 1..Len(v.l) : v.l[i].t \notin ScalarTypes \/ IsInfOrNan(v.l[i])

\* the node breaks a rule: it is no dict, lacks a key, has no conditions, an
\* unknown operator or an invalid value
BreaksRule(x) ==
    IF ~IsDict(x) THEN TRUE
    ELSE IF IsLeaf(x)
    THEN \/ ~IsFullLeaf(x)
         \/ x.d.operator.s \notin COMPARISON_OPERATORS
         \/ InvalidValue(x.d.operator.s, x.d.value)
    ELSE \/ ~IsLogical(x)
         \/ x.d.conditions.l = <<>>
         \/ x.d.operator \notin {Str(S_AND), Str(S_OR), Str(S_NOT)}

\* C3: when any node of the tree, at any depth and any position, breaks a rule,
\* normalize_filters of the whole tree ends in an error and returns no string.
C3_FailFast ==
    (Done /\ \E x \in SubNodes(filters) : BreaksRule(x)) => ~result.ok

\* apart from a non-finite float in the list of in / not in, a broken rule
\* anywhere in the tree does end the call in an error
FailFastApartFromListFloats ==
    (/\ Done
     /\ \E x \in SubNodes(filters) : BreaksRule(x)
     /\ \A x \in SubNodes(filters) :
          ~(/\ LeafWithOp(x, {OP_IN, OP_NOT_IN})
            /\ x.d.value.t = "list"
            /\ \E i \in 1..Len(x.d.value.l) : IsInfOrNan(x.d.value.l[i])))
      => ~result.ok

\* C4: an infinite or NaN float is rejected wherever it is a filter value: as
\* the scalar value of ==, !=, >, >=, <, <= and as an element of the list of
\* in / not in.
C4_InfNanRejected ==
    (/\ Done
     /\ LeafWithOp(filters, COMPARISON_OPERATORS)
     /\ \/ IsInfOrNan(filters.d.value)
        \/ /\ filters.d.value.t = "list"
           /\ \E i \in 1..Len(filters.d.value.l) : IsInfOrNan(filters.d.value.l[i]))
      => ~result.ok

-----------------------------------------------------------------------------
(* C5, C6 *)

\* the field a leaf emits
Emitted(x) == StripMeta(x.d.field.s)

NoChar(c, s) == \A i \in 1..Len(s) : s[i] # c

IsFinite(v) == v.t \in {"bool", "int"} \/ (v.t = "float" /\ v.k = "fin")

\* the decimal form of a number, the literal of a boolean
Rendered(v) ==
    CASE v.t = "bool" -> (IF v.b THEN <<"t","r","u","e">> ELSE <<"f","a","l","s","e">>)
      [] v.t = "int" -> IntStr(v.i)
      [] v.t = "float" -> FloatStr(v)

\* C5: a leaf with == or != and a string value gives `field contains "<escaped>"`,
\* inside `!(...)` for !=, and holds no `=`; with a boolean, an integer or a finite
\* float it gives `field = <rendered>`, inside `!(...)` for !=, and holds no
\* `contains`.
C5_EqualityForms ==
    (Done /\ LeafWithOp(filters, {OP_EQ, OP_NE}))
      => LET field == Emitted(filters)
             value == filters.d.value
             negated == filters.d.operator.s = OP_NE
             open == IF negated THEN <<"!", "(">> ELSE <<>>
             close == IF negated THEN <<")">> ELSE <<>>
         IN /\ value.t = "str"
                 => /\ result = Ok(open \o field \o S_contains \o <<"\"">>
                                     \o _escape_yql_string(value.s) \o <<"\"">> \o close)
                    /\ NoChar("=", result.out)
            /\ IsFinite(value)
                 => /\ result = Ok(open \o field \o <<" ", "=", " ">> \o Rendered(value) \o close)
                    /\ ~IsSubstring(<<"c","o","n","t","a","i","n","s">>, result.out)

\* a != leaf with a string value of both special characters has compiled
C5_Witness ==
    /\ Done
    /\ LeafWithOp(filters, {OP_NE})
    /\ filters.d.value.t = "str"
    /\ IsSubstring(<<"\"">>, filters.d.value.s)
    /\ IsSubstring(<<"a">>, filters.d.value.s)
    /\ result.ok

\* the operators that render a scalar value
ScalarOps == {OP_EQ, OP_NE} \cup RangeOps

\* C6: a boolean is rendered as `true` or `false`, never as a number or as
\* Python's `True` / `False`: as the value of ==, != and the range operators,
\* and as an element of an in / not in list, also next to integers.
C6_BooleanLiterals ==
    /\ (Done /\ LeafWithOp(filters, ScalarOps) /\ filters.d.value.t = "bool")
         => LET op == filters.d.operator.s
                lit == IF filters.d.value.b THEN <<"t","r","u","e">> ELSE <<"f","a","l","s","e">>
                body == Emitted(filters) \o OpText(op) \o lit
            IN result = Ok(IF op = OP_NE THEN <<"!", "(">> \o body \o <<")">> ELSE body)
    /\ (/\ Done
        /\ LeafWithOp(filters, {OP_IN, OP_NOT_IN})
        /\ filters.d.value.t = "list"
        /\ \E i \in 1..Len(filters.d.value.l) : filters.d.value.l[i].t = "bool"
        /\ \A i \in 1..Len(filters.d.value.l) : filters.d.value.l[i].t \in {"bool", "int"})
         => LET l == filters.d.value.l
                parts == [i \in 1..Len(l) |-> Rendered(l[i])]
                body == Emitted(filters) \o <<" ","i","n"," ","(">>
                          \o JoinLeft(parts, <<",", " ">>, Len(l)) \o <<")">>
            IN /\ result = Ok(IF filters.d.operator.s = OP_NOT_IN
                              THEN <<"!", "(">> \o body \o <<")">> ELSE body)
               /\ ~IsSubstring(S_True, result.out)
               /\ ~IsSubstring(S_False, result.out)

\* an in list mixing an integer and a boolean has compiled
C6_Witness ==
    /\ Done
    /\ LeafWithOp(filters, {OP_IN})
    /\ filters.d.value = List(<<IntV(1), BoolV(TRUE)>>)
    /\ result.ok

-----------------------------------------------------------------------------
(* C7 *)

FirstSpace(s) == CHOOSE k \in 1..Len(s) : s[k] = " " /\ \A j \in 1..(k - 1) : s[j] # " "

\* the field name at the head of a leaf's output: what precedes the first
\* blank, after the "!(" that != and not in put in front
EmittedField(out, op) ==
    LET body == IF op \in {OP_NE, OP_NOT_IN} THEN SubSeq(out, 3, Len(out)) ELSE out
    IN SubSeq(body, 1, FirstSpace(body) - 1)

\* e is f without its leading "meta." when f starts with "meta.", and f otherwise
FieldAsClaimed(f, e) ==
    IF Len(f) >= 5 /\ f[1] = "m" /\ f[2] = "e" /\ f[3] = "t" /\ f[4] = "a" /\ f[5] = "."
    THEN f = <<"m","e","t","a",".">> \o e
    ELSE e = f

\* C7: a leaf that compiles emits its field name without the prefix `meta.` if
\* and only if the name starts with it; one leading occurrence is removed, an
\* embedded one stays, any other name is emitted unchanged; for all eight
\* operators and at every nesting depth.
C7_MetaPrefix ==
    /\ (Done /\ LeafWithOp(filters, COMPARISON_OPERATORS) /\ result.ok)
         => FieldAsClaimed(filters.d.field.s, EmittedField(result.out, filters.d.operator.s))
    /\ (Done /\ IsLogical(filters) /\ result.ok)
         => \A x \in SubNodes(filters) :
              LeafWithOp(x, COMPARISON_OPERATORS)
                => LET out == _parse_comparison_condition(x).out
                   IN /\ FieldAsClaimed(x.d.field.s, EmittedField(out, x.d.operator.s))
                      /\ IsSubstring(out, result.out)

\* a tree with the leaf `meta.meta.x in [...]` two levels below the root has compiled
C7_Witness ==
    /\ Done
    /\ IsLogical(filters)
    /\ Depth(filters) = 3
    /\ \E x \in SubNodes(filters) : IsLeaf(x) /\ x.d.field = Str(F_meta_meta_x)
    /\ result.ok
    /\ IsSubstring(<<"(">> \o S_meta_dot \o <<"x", " ">>, result.out)

-----------------------------------------------------------------------------
(* C8 *)

\* every backslash doubled and every quote q preceded by a backslash, in one pass
RECURSIVE CharwiseEscape(_, _)
CharwiseEscape(s, q) ==
    IF s = <<>> THEN <<>>
    ELSE (IF Head(s) = "\\" THEN <<"\\", "\\">>
          ELSE IF Head(s) = q THEN <<"\\", q>>
          ELSE <<Head(s)>>) \o CharwiseEscape(Tail(s), q)

\* the escapes removed: a backslash stands for the character after it
RECURSIVE Unescape(_)
Unescape(e) ==
    IF e = <<>> THEN <<>>
    ELSE IF Head(e) = "\\" /\ Len(e) >= 2 THEN <<e[2]>> \o Unescape(SubSeq(e, 3, Len(e)))
    ELSE <<Head(e)>> \o Unescape(Tail(e))

\* no quote q without a backslash before it, no backslash without a character after
RECURSIVE NoBareQuote(_, _)
NoBareQuote(e, q) ==
    IF e = <<>> THEN TRUE
    ELSE IF Head(e) = "\\" THEN Len(e) >= 2 /\ NoBareQuote(SubSeq(e, 3, Len(e)), q)
    ELSE Head(e) # q /\ NoBareQuote(Tail(e), q)

\* what lies between the two delimiters of the literal that ends the output of a
\* scalar operator, `skip` characters in front of it and `tail` behind it
Literal(out, skip, tail) == SubSeq(out, skip + 2, Len(out) - tail - 1)

\* C8: in a double-quoted literal (==, !=, range operators) every backslash of
\* the value is doubled and every `"` gets one backslash, nothing else changes;
\* in a single-quoted list literal (in / not in) the same holds with `'`, and `"`
\* is left as it is.  Removing the escapes gives the value back, and no bare
\* quote character lies between the delimiters.
C8_Escaping ==
    /\ (Done /\ LeafWithOp(filters, ScalarOps) /\ filters.d.value.t = "str")
         => LET op == filters.d.operator.s
                value == filters.d.value.s
                text == IF op \in RangeOps THEN OpText(op) ELSE S_contains
                skip == (IF op = OP_NE THEN 2 ELSE 0) + Len(Emitted(filters)) + Len(text)
                tail == IF op = OP_NE THEN 1 ELSE 0
                lit == Literal(result.out, skip, tail)
            IN /\ result.ok
               /\ result.out[skip + 1] = "\""
               /\ result.out[Len(result.out) - tail] = "\""
               /\ lit = CharwiseEscape(value, "\"")
               /\ Unescape(lit) = value
               /\ NoBareQuote(lit, "\"")
    /\ (/\ Done
        /\ LeafWithOp(filters, {OP_IN, OP_NOT_IN})
        /\ filters.d.value.t = "list"
        /\ filters.d.value.l # <<>>
        /\ \A i \in 1..Len(filters.d.value.l) : filters.d.value.l[i].t = "str")
         => LET l == filters.d.value.l
                negated == filters.d.operator.s = OP_NOT_IN
                parts == [i \in 1..Len(l) |-> <<"'">> \o CharwiseEscape(l[i].s, "'") \o <<"'">>]
                body == Emitted(filters) \o <<" ","i","n"," ","(">>
                          \o JoinLeft(parts, <<",", " ">>, Len(l)) \o <<")">>
                skip == (IF negated THEN 2 ELSE 0) + Len(Emitted(filters)) + 5
                tail == IF negated THEN 2 ELSE 1
                lit == Literal(result.out, skip, tail)
            IN /\ result = Ok(IF negated THEN <<"!", "(">> \o body \o <<")">> ELSE body)
               /\ Len(l) = 1 => /\ Unescape(lit) = l[1].s
                                /\ NoBareQuote(lit, "'")

\* an == leaf whose value holds a backslash and a double quote has compiled
C8_Witness ==
    /\ Done
    /\ LeafWithOp(filters, {OP_EQ})
    /\ filters.d.value = Str(<<"\\", "\"">>)
    /\ result.ok

-----------------------------------------------------------------------------
(* C9, C10 *)

\* an element of the list of in / not in, as it appears in the output
ElementAsClaimed(e) ==
    IF e.t = "str" THEN <<"'">> \o CharwiseEscape(e.s, "'") \o <<"'">> ELSE Rendered(e)

\* C9: a leaf with `in` yields an error when its value is no list, when the list
\* is empty (`field in ()` is never emitted) and when an element is no string,
\* boolean, integer or float; otherwise it yields `field in (e1, e2, ...)`, one
\* rendered element per list element, in list order, joined by `, `.
C9_In ==
    (Done /\ LeafWithOp(filters, {OP_IN}))
      => LET value == filters.d.value
         IN IF value.t # "list" THEN ~result.ok
            ELSE IF value.l = <<>> THEN ~result.ok
            ELSE IF \E i \in 1..Len(value.l) : value.l[i].t \notin ScalarTypes THEN ~result.ok
            ELSE /\ result = Ok(Emitted(filters) \o <<" ","i","n"," ","(">>
                                  \o JoinLeft([i \in 1..Len(value.l) |-> ElementAsClaimed(value.l[i])],
                                              <<",", " ">>, Len(value.l))
                                  \o <<")">>)
                 /\ ~IsSubstring(<<"(", ")">>, result.out)

\* an `in` leaf with a list of two elements of different types has compiled
C9_Witness ==
    /\ Done
    /\ LeafWithOp(filters, {OP_IN})
    /\ filters.d.value = List(<<Str(<<"'">>), IntV(MaxInt)>>)
    /\ result.ok

\* C10: for every field and value, `not in` succeeds exactly when `in` succeeds
\* on the same field and value, and then gives "!(" + the output of `in` + ")".
C10_NotIn ==
    (/\ Done
     /\ IsLeaf(filters)
     /\ {"operator", "value"} \subseteq DOMAIN filters.d
     /\ filters.d.operator = Str(OP_NOT_IN))
      => LET r_in == normalize_filters(Leaf(filters.d.field, Str(OP_IN), filters.d.value))
         IN /\ result.ok <=> r_in.ok
            /\ result.ok => result.out = <<"!", "(">> \o r_in.out \o <<")">>

\* a `not in` leaf has compiled
C10_Witness ==
    /\ Done
    /\ LeafWithOp(filters, {OP_NOT_IN})
    /\ filters.d.value.t = "list"
    /\ Len(filters.d.value.l) = 2
    /\ result.ok

-----------------------------------------------------------------------------
(* C11 *)

\* a logical node whose conditions list is empty
IsEmptyLogical(x) == IsLogical(x) /\ x.d.conditions.l = <<>>

\* C11: a logical node with an empty conditions list yields an error whatever
\* its operator (AND, OR, NOT or an unknown one), at the root and at any nesting
\* depth; no successful output holds an empty group `()` or `!()`.
C11_EmptyConditions ==
    /\ (Done /\ \E x \in SubNodes(filters) : IsEmptyLogical(x)) => ~result.ok
    /\ (Done /\ result.ok) => ~IsSubstring(<<"(", ")">>, result.out)

\* a tree with an empty logical node below a valid sibling, under the root, has
\* ended in an error
C11_Witness ==
    /\ Done
    /\ IsLogical(filters)
    /\ Len(filters.d.conditions.l) = 2
    /\ _parse_comparison_condition(filters.d.conditions.l[1]).ok
    /\ IsEmptyLogical(filters.d.conditions.l[2])
    /\ filters.d.operator \in {Str(S_AND), Str(S_OR), Str(S_NOT)}
    /\ ~result.ok

-----------------------------------------------------------------------------
(* C12 *)

\* C12: a null value yields an error for ==, !=, >, >=, <, <= and a list value
\* yields an error for >, >=, <, <=, no string being returned; a range operator
\* with a string value succeeds and gives `field <op> "value"`, the value as a
\* double-quoted literal.
C12_NullListAndRangeString ==
    /\ (Done /\ LeafWithOp(filters, ScalarOps) /\ filters.d.value = None)
         => ~result.ok /\ "out" \notin DOMAIN result
    /\ (Done /\ LeafWithOp(filters, RangeOps) /\ filters.d.value.t = "list")
         => ~result.ok /\ "out" \notin DOMAIN result
    /\ (Done /\ LeafWithOp(filters, RangeOps) /\ filters.d.value.t = "str")
         => result = Ok(Emitted(filters) \o OpText(filters.d.operator.s) \o <<"\"">>
                          \o CharwiseEscape(filters.d.value.s, "\"") \o <<"\"">>)

\* a >= leaf with a string value has compiled to a double-quoted literal
C12_Witness ==
    /\ Done
    /\ LeafWithOp(filters, {OP_GE})
    /\ filters.d.value = Str(<<"a", "a">>)
    /\ result = Ok(<<"x", " ", ">", "=", " ", "\"", "a", "a", "\"">>)

=============================================================================
